---------------------------- MODULE Spec2Model ----------------------------
(***************************************************************************)
(* Model of docling_surya/plugin.py: the SuryaOCR engine for docling.      *)
(*                                                                         *)
(*   SuryaOcrOptions      the options schema (kind = "suryaocr")           *)
(*   SuryaOcrModel        __init__ (backend import and construction) and   *)
(*                        __call__ (a generator over the page stream)      *)
(*   ocr_engines          the plugin factory                               *)
(*                                                                         *)
(* The generator is modelled at the grain of its loop bodies: the          *)
(* consumer's next() (Resume), the head of `for page in page_batch`        *)
(* (PassThrough, EndOfStream, SkipPage, StartPage), one iteration of       *)
(* `for rect in ocr_rects` (ProcessRect) and the tail of the page body up  *)
(* to `yield page` (FinishPage).  page_batch is an Iterable and is pulled  *)
(* lazily, one page per iteration.                                         *)
(*                                                                         *)
(* Numbers: Python's `/` is true division.  A coordinate is the exact      *)
(* rational [num, den] in lowest terms (den > 0); float rounding is not    *)
(* modelled.  A confidence in [0, 1] is written in percent (0.95 is 95).   *)
(***************************************************************************)
EXTENDS Integers, Sequences, FiniteSets, TLC

\* ------------------------------------------------------------------ bounds
\* Pages pulled from page_batch in one run.
MaxPages == 2
\* Rectangles get_ocr_rects returns for one page.
MaxRects == 2
\* Text lines in one recognition result.
MaxLines == 1

\* ------------------------------------------------------- program constants
\* self.scale = 3  (72 dpi -> 216 dpi)
scale == 3

\* kind: ClassVar[Literal["suryaocr"]] = "suryaocr"
KindEntryPointName == "surya-ocr"
SuryaOcrOptions_kind == "suryaocr"

\* The fields of a SuryaOcrOptions instance.  kind is a ClassVar, so it is no
\* field, and model_config = {"extra": "forbid"} refuses it as a keyword.
SuryaOcrOptionsInstances ==
    [lang : {<<"en">>, <<"en", "de">>},
     use_gpu : {"None", "True", "False"},
     model_storage_directory : {"None", "/models"},
     download_enabled : BOOLEAN]

\* Attribute lookup options.kind: the instance's own fields first, then the
\* class.
InstanceKind(o) ==
    IF "kind" \in DOMAIN o THEN o.kind ELSE SuryaOcrOptions_kind

\* SuryaOcrModel.get_options_type
get_options_type(cls) ==
    IF cls = "SuryaOcrModel" THEN "SuryaOcrOptions" ELSE "OcrOptions"

\* opt_type.kind, read on the class.
ClassKind(optType) ==
    IF optType = "SuryaOcrOptions" THEN SuryaOcrOptions_kind ELSE "NoKind"

\* def ocr_engines(): return {"ocr_engines": [SuryaOcrModel]}
ocr_engines == [ocr_engines |-> <<"SuryaOcrModel">>]

\* Names bound in the plugin module's namespace (its imports, its own
\* definitions) and the builtin exceptions the constructor mentions.
ModuleGlobals ==
    {"logging", "os", "Iterable", "Path", "ClassVar", "Literal", "Optional",
     "Type", "BoundingBox", "CoordOrigin", "BoundingRectangle", "TextCell",
     "AcceleratorOptions", "Page", "ConversionResult", "OcrOptions",
     "settings", "BaseOcrModel", "TimeRecorder", "_log", "SuryaOcrOptions",
     "SuryaOcrModel", "ocr_engines", "ImportError"}

\* `raise Name(...)`: the name is looked up first; an unbound name raises
\* NameError in place of the exception meant.
RaiseNamed(name) == IF name \in ModuleGlobals THEN name ELSE "NameError"

\* ------------------------------------------------------------- arithmetic
RECURSIVE GCD(_, _)
GCD(a, b) == IF b = 0 THEN a ELSE GCD(b, a % b)

\* Mutants of the division (floor division; no division at all).
FloorDiv(a, b) == [num |-> a \div b, den |-> 1]
NoDiv(a, b) == [num |-> a, den |-> 1]

\* a / b for a >= 0, b > 0: the rational in lowest terms.
TrueDiv(a, b) ==
    LET g == GCD(a, b) IN [num |-> a \div g, den |-> b \div g]

\* q + i for a rational q and an integer i (stays in lowest terms).
AddInt(q, i) == [num |-> q.num + i * q.den, den |-> q.den]

\* ------------------------------------------------------------ input sets
SeqsUpTo(S, n) == UNION {[1..k -> S] : k \in 0..n}

\* Regions in page coordinates, top-left origin, all within a 200 x 200 page:
\* two with an area (the second a small one in the page's bottom right
\* corner), one of zero width, one of zero height.
Rects ==
    {[l |-> 50, t |-> 100, r |-> 90, b |-> 140],
     [l |-> 180, t |-> 190, r |-> 200, b |-> 200],
     [l |-> 20, t |-> 30, r |-> 20, b |-> 60],
     [l |-> 20, t |-> 30, r |-> 40, b |-> 30]}

\* Text lines the recognition predictor may return: (bbox, text, confidence).
TextLines ==
    {[bbox |-> <<30, 60, 90, 120>>, text |-> "line", confidence |-> 50],
     [bbox |-> <<10, 20, 100, 40>>, text |-> "Hello from Surya",
      confidence |-> 95]}

\* What recognition_predictor([img], ...) may return: nothing, one result
\* (with up to MaxLines lines, possibly none), or two one-line results.
PredsSet ==
    {<< >>}
    \cup {<<[text_lines |-> ls]>> : ls \in SeqsUpTo(TextLines, MaxLines)}
    \cup {<<[text_lines |-> <<a>>], [text_lines |-> <<b>>]>> :
            a \in TextLines, b \in TextLines}

\* A page as page_batch supplies it: its backend (absent, invalid or valid),
\* the rectangles get_ocr_rects would return for it, and its OCR cells.
NewPage(i, be, rs) ==
    [id |-> i, backend |-> be, rects |-> rs, cells |-> << >>,
     post_processed |-> FALSE]

NoPage == NewPage(0, "none", << >>)

Backends == {"none", "invalid", "valid"}


\* ------------------------------------------------------------------ state
VARIABLES
    env,              \* the installation: is surya importable, do its predictors construct
    registry,         \* the host's engine registry: pairs <<kind, engine class>>
    gen,              \* where the adapter is: "new", "failed", "ready", then the
                      \* generator: "start", "loop", "rects", "yield", "done"
    enabled,          \* self.enabled
    import_attempted, \* the constructor reached `from surya... import`
    has_predictors,   \* self.recognition_predictor / self.detection_predictor are set
    raised,           \* the exception the constructor raised ("none": none)
    requests,         \* next() calls the consumer has made
    pulled,           \* pages taken from page_batch
    emitted,          \* pages yielded
    page,             \* the page last taken from page_batch, as it was supplied
    yielded,          \* the page object last yielded
    prev,             \* was the page yielded before this one post-processed
                      \* ("processed") or not ("passed"); "nopage": there was none
    ocr_rects,        \* local ocr_rects of the page body
    rectIdx,          \* position of `for rect in ocr_rects` (1-based)
    all_cells,        \* local all_cells of the page body
    events            \* collaborator operations performed for the current page

vars ==
    <<env, registry, gen, enabled, import_attempted, has_predictors, raised,
      requests, pulled, emitted, page, yielded, prev, ocr_rects, rectIdx,
      all_cells, events>>

ctorVars == <<enabled, import_attempted, has_predictors, raised>>
bodyVars == <<ocr_rects, rectIdx, all_cells>>

\* One collaborator operation: "select" (get_ocr_rects), "render"
\* (get_page_image), "recognize" (recognition_predictor), "warn"
\* (_log.warning), "post" (post_process_cells), "draw"
\* (draw_ocr_rects_and_cells).
Ev(op, i, n, preds, cells) ==
    [op |-> op, rect |-> i, batch |-> n, preds |-> preds, cells |-> cells]

Init ==
    /\ env \in [surya_installed : BOOLEAN, predictors_construct : BOOLEAN]
    /\ registry = {}
    /\ gen = "new"
    /\ enabled = FALSE
    /\ import_attempted = FALSE
    /\ has_predictors = FALSE
    /\ raised = "none"
    /\ requests = 0
    /\ pulled = 0
    /\ emitted = 0
    /\ page = NoPage
    /\ yielded = NoPage
    /\ prev = "nopage"
    /\ ocr_rects = << >>
    /\ rectIdx = 1
    /\ all_cells = << >>
    /\ events = << >>

\* ----------------------------------------------------------- registration
\* The host's factory calls ocr_engines() and files each engine class under
\* the kind of its options type.
LoadPlugin ==
    /\ gen = "new"
    /\ registry = {}
    /\ registry' =
         {<<ClassKind(get_options_type(ocr_engines.ocr_engines[k])),
            ocr_engines.ocr_engines[k]>> : k \in DOMAIN ocr_engines.ocr_engines}
    /\ UNCHANGED <<env, gen, ctorVars, requests, pulled, emitted, page,
                   yielded, prev, bodyVars, events>>

\* The host's lookup of an engine by the kind string.
Lookup(kind) == {e[2] : e \in {x \in registry : x[1] = kind}}

\* ----------------------------------------------------------- construction
\* SuryaOcrModel.__init__(enabled, ...)
SuryaOcrModel_init ==
    /\ gen = "new"
    /\ \E en \in BOOLEAN :
         /\ enabled' = en
         /\ IF ~en
              THEN /\ gen' = "ready"
                   /\ UNCHANGED <<import_attempted, has_predictors, raised>>
              ELSE /\ import_attempted' = TRUE
                   /\ IF ~env.surya_installed
                        THEN \* except ImportError: raise ImportOcrError(...)
                             /\ raised' = RaiseNamed("ImportOcrError")
                             /\ gen' = "failed"
                             /\ UNCHANGED has_predictors
                        ELSE IF ~env.predictors_construct
                          THEN \* a predictor constructor raises, outside the try
                               /\ raised' = "RuntimeError"
                               /\ gen' = "failed"
                               /\ UNCHANGED has_predictors
                          ELSE /\ has_predictors' = TRUE
                               /\ gen' = "ready"
                               /\ UNCHANGED raised
    /\ UNCHANGED <<env, registry, requests, pulled, emitted, page, yielded,
                   prev, bodyVars, events>>

\* SuryaOcrModel.__call__(conv_res, page_batch): calling a generator function
\* runs none of its body.
SuryaOcrModel_call ==
    /\ gen = "ready"
    /\ gen' = "start"
    /\ UNCHANGED <<env, registry, ctorVars, requests, pulled, emitted, page,
                   yielded, prev, bodyVars, events>>

\* The consumer asks for the next element: the generator runs on from its
\* start or from the yield it was suspended at.  The page just yielded now
\* belongs to the consumer, and the locals of the page body are dead (every
\* path assigns them before it reads them), so the model forgets them here.
Resume ==
    /\ gen \in {"start", "yield"}
    /\ requests <= MaxPages
    /\ requests' = requests + 1
    /\ prev' = IF gen = "start" THEN prev
               ELSE IF yielded.post_processed THEN "processed" ELSE "passed"
    /\ gen' = "loop"
    /\ page' = NoPage
    /\ yielded' = NoPage
    /\ ocr_rects' = << >>
    /\ rectIdx' = 1
    /\ all_cells' = << >>
    /\ events' = << >>
    /\ UNCHANGED <<env, registry, ctorVars, pulled, emitted>>

\* ------------------------------------------------------ the generator body
\* `if not self.enabled:` and its mutant, the test inverted.
IsDisabledInverted == enabled
IsDisabled == ~enabled

\* `page._backend is None or not page._backend.is_valid()` and its mutant,
\* which forgets is_valid().
BackendAbsent(p) == p.backend = "none"
BackendUnusable(p) == p.backend = "none" \/ p.backend = "invalid"

\* rect.area() and its mutant, which looks at the width alone.
areaOfWidth(rect) == rect.r - rect.l
area(rect) == (rect.r - rect.l) * (rect.b - rect.t)

\* `if not preds:` and its mutant, which never takes the branch.
NoResultNever(preds) == FALSE
NoResult(preds) == preds = << >>

\* [(tl.bbox, tl.text, tl.confidence) for pred in preds for tl in pred.text_lines]
RECURSIVE Flatten(_)
Flatten(preds) ==
    IF preds = << >> THEN << >>
    ELSE Head(preds).text_lines \o Flatten(Tail(preds))

\* BoundingBox.from_tuple(coord=(l, t, r, b), origin=...)
from_tuple(coord, origin) ==
    [l |-> coord[1], t |-> coord[2], r |-> coord[3], b |-> coord[4],
     coord_origin |-> origin]

\* BoundingRectangle.from_bounding_box: the four corners, starting at the
\* box's (l, b) and going by (r, b) and (r, t) to (l, t).
from_bounding_box(bbox) ==
    [r_x0 |-> bbox.l, r_y0 |-> bbox.b, r_x1 |-> bbox.r, r_y1 |-> bbox.b,
     r_x2 |-> bbox.r, r_y2 |-> bbox.t, r_x3 |-> bbox.l, r_y3 |-> bbox.t,
     coord_origin |-> bbox.coord_origin]

\* TextCell(index=i, text=txt, orig=txt, confidence=conf, from_ocr=True, rect=...)
TextCell(i, tl, rect) ==
    [index |-> i,
     text |-> tl.text,
     orig |-> tl.text,
     confidence |-> tl.confidence,
     from_ocr |-> TRUE,
     rect |-> from_bounding_box(from_tuple(
                <<AddInt(TrueDiv(tl.bbox[1], scale), rect.l),
                  AddInt(TrueDiv(tl.bbox[2], scale), rect.t),
                  AddInt(TrueDiv(tl.bbox[3], scale), rect.l),
                  AddInt(TrueDiv(tl.bbox[4], scale), rect.t)>>,
                "TOPLEFT"))]

\* cells = [TextCell(index=i, ...) for i, (bbox, txt, conf) in enumerate(result)]
Cells(result, rect) ==
    [k \in 1..Len(result) |-> TextCell(k - 1, result[k], rect)]

\* `yield from page_batch; return` of a disabled adapter: one element of the
\* delegation, or its end.
PassThrough ==
    /\ gen = "loop"
    /\ IsDisabled
    /\ \/ /\ pulled < MaxPages
          /\ \E be \in Backends, rs \in SeqsUpTo(Rects, MaxRects) :
               /\ page' = NewPage(pulled + 1, be, rs)
               /\ yielded' = page'
          /\ pulled' = pulled + 1
          /\ emitted' = emitted + 1
          /\ gen' = "yield"
       \/ /\ gen' = "done"
          /\ UNCHANGED <<page, yielded, pulled, emitted>>
    /\ UNCHANGED <<env, registry, ctorVars, requests, prev, bodyVars, events>>

\* `for page in page_batch` finds the stream exhausted.
EndOfStream ==
    /\ gen = "loop"
    /\ ~IsDisabled
    /\ gen' = "done"
    /\ UNCHANGED <<env, registry, ctorVars, requests, pulled, emitted, page,
                   yielded, prev, bodyVars, events>>

\* A page without a usable backend: `yield page; continue`.
SkipPage ==
    /\ gen = "loop"
    /\ ~IsDisabled
    /\ pulled < MaxPages
    /\ \E be \in Backends, rs \in SeqsUpTo(Rects, MaxRects) :
         /\ BackendUnusable(NewPage(pulled + 1, be, rs))
         /\ page' = NewPage(pulled + 1, be, rs)
         /\ yielded' = page'
    /\ pulled' = pulled + 1
    /\ emitted' = emitted + 1
    /\ events' = << >>
    /\ gen' = "yield"
    /\ UNCHANGED <<env, registry, ctorVars, requests, prev, bodyVars>>

\* A page with a valid backend: ocr_rects = self.get_ocr_rects(page);
\* all_cells = [].
StartPage ==
    /\ gen = "loop"
    /\ ~IsDisabled
    /\ pulled < MaxPages
    /\ \E be \in Backends, rs \in SeqsUpTo(Rects, MaxRects) :
         /\ ~BackendUnusable(NewPage(pulled + 1, be, rs))
         /\ page' = NewPage(pulled + 1, be, rs)
         /\ ocr_rects' = rs
    /\ pulled' = pulled + 1
    /\ all_cells' = << >>
    /\ rectIdx' = 1
    /\ events' = <<Ev("select", 0, 0, << >>, << >>)>>
    /\ gen' = "rects"
    /\ UNCHANGED <<env, registry, ctorVars, requests, emitted, yielded, prev>>

\* One iteration of `for rect in ocr_rects`.
ProcessRect ==
    /\ gen = "rects"
    /\ rectIdx <= Len(ocr_rects)
    /\ rectIdx' = rectIdx + 1
    /\ LET rect == ocr_rects[rectIdx] IN
         IF area(rect) = 0
           THEN UNCHANGED <<all_cells, events>>
           ELSE \E preds \in PredsSet :
                  LET called == events \o
                        <<Ev("render", rectIdx, 0, << >>, << >>),
                          Ev("recognize", rectIdx, 1, preds, << >>)>>
                  IN IF NoResult(preds)
                       THEN /\ events' = Append(called,
                                           Ev("warn", rectIdx, 0, << >>, << >>))
                            /\ UNCHANGED all_cells
                       ELSE /\ events' = called
                            /\ all_cells' =
                                 all_cells \o Cells(Flatten(preds), rect)
    /\ UNCHANGED <<env, registry, gen, ctorVars, requests, pulled, emitted,
                   page, yielded, prev, ocr_rects>>

\* The mutant of FinishPage: post_process_cells only when there are cells.
FinishPageIfCells ==
    /\ gen = "rects"
    /\ rectIdx > Len(ocr_rects)
    /\ \E visualize_ocr \in BOOLEAN :
         /\ events' = events
              \o (IF all_cells = << >> THEN << >>
                  ELSE <<Ev("post", 0, 0, << >>, all_cells)>>)
              \o (IF visualize_ocr
                    THEN <<Ev("draw", 0, 0, << >>, << >>)>> ELSE << >>)
         /\ yielded' = IF all_cells = << >> THEN page
                       ELSE [page EXCEPT !.cells = all_cells,
                                         !.post_processed = TRUE]
    /\ emitted' = emitted + 1
    /\ gen' = "yield"
    /\ UNCHANGED <<env, registry, ctorVars, requests, pulled, page, prev,
                   bodyVars>>

\* After the last rectangle: self.post_process_cells(all_cells, page), the
\* drawing when settings.debug.visualize_ocr is set, and `yield page`.
FinishPage ==
    /\ gen = "rects"
    /\ rectIdx > Len(ocr_rects)
    /\ \E visualize_ocr \in BOOLEAN :
         events' = events
              \o <<Ev("post", 0, 0, << >>, all_cells)>>
              \o (IF visualize_ocr
                    THEN <<Ev("draw", 0, 0, << >>, << >>)>> ELSE << >>)
    /\ yielded' = [page EXCEPT !.cells = all_cells, !.post_processed = TRUE]
    /\ emitted' = emitted + 1
    /\ gen' = "yield"
    /\ UNCHANGED <<env, registry, ctorVars, requests, pulled, page, prev,
                   bodyVars>>

\* The adapter on its own, as the tests construct and call it.
Next ==
    \/ SuryaOcrModel_init
    \/ SuryaOcrModel_call
    \/ Resume
    \/ PassThrough
    \/ EndOfStream
    \/ SkipPage
    \/ StartPage
    \/ ProcessRect
    \/ FinishPage

Spec == Init /\ [][Next]_vars

\* The adapter under the host, which loads the plugin before it constructs
\* an engine.
HostNext ==
    \/ LoadPlugin
    \/ Next

HostSpec == Init /\ [][HostNext]_vars

\* ---------------------------------------------------------------- page size
\* The pages of the test document: pagesize=(200, 200).
PageWidth == 200
PageHeight == 200

\* ------------------------------------------------- vocabulary of the claims
EventsOf(op) == SelectSeq(events, LAMBDA e : e.op = op)

Positions(op) == {j \in DOMAIN events : events[j].op = op}

HasArea(rect) == rect.l # rect.r /\ rect.t # rect.b

\* The indices, among the first n rectangles of ocr_rects, of those with an area.
AreaIndices(n) == {i \in 1..n : i <= Len(ocr_rects) /\ HasArea(ocr_rects[i])}

\* The text lines of one recognition return, result by result.
RECURSIVE LinesOfPreds(_)
LinesOfPreds(preds) ==
    IF Len(preds) = 0 THEN << >>
    ELSE LinesOfPreds(SubSeq(preds, 1, Len(preds) - 1))
           \o preds[Len(preds)].text_lines

\* The recognized lines of the current page so far, each with the rectangle
\* it was recognized in: call by call, and line by line within a call.
RECURSIVE LinesOfCalls(_)
LinesOfCalls(calls) ==
    IF calls = << >> THEN << >>
    ELSE LET e == Head(calls)
             ls == LinesOfPreds(e.preds)
         IN [k \in 1..Len(ls) |-> [rect |-> ocr_rects[e.rect], tl |-> ls[k]]]
              \o LinesOfCalls(Tail(calls))

Recognized == LinesOfCalls(EventsOf("recognize"))

\* The box of a cell's rectangle, read off its corners.
CellBox(c) ==
    [l |-> c.rect.r_x3, t |-> c.rect.r_y3, r |-> c.rect.r_x1, b |-> c.rect.r_y1]

Whole(n) == [num |-> n, den |-> 1]

\* q = (x / 3) + o, for a rational q in lowest terms and integers x, o.
IsThirdPlus(q, x, o) ==
    /\ q.den > 0
    /\ GCD(IF q.num < 0 THEN -q.num ELSE q.num, q.den) = 1
    /\ q.num * 3 = (x + 3 * o) * q.den

\* lo <= q <= hi, for a rational q (den > 0) and integers lo, hi.
Between(q, lo, hi) == lo * q.den <= q.num /\ q.num <= hi * q.den

InBody == gen \in {"rects", "yield"} /\ page.backend = "valid"

\* The bbox of a line lies within the crop rendered for rect at three times
\* the page resolution.
WithinCrop(tl, rect) ==
    /\ 0 <= tl.bbox[1] /\ tl.bbox[1] <= tl.bbox[3]
    /\ tl.bbox[3] <= 3 * (rect.r - rect.l)
    /\ 0 <= tl.bbox[2] /\ tl.bbox[2] <= tl.bbox[4]
    /\ tl.bbox[4] <= 3 * (rect.b - rect.t)

WithinRegionAndPage(c, rect) ==
    LET box == CellBox(c) IN
    /\ Between(box.l, rect.l, rect.r) /\ Between(box.r, rect.l, rect.r)
    /\ Between(box.t, rect.t, rect.b) /\ Between(box.b, rect.t, rect.b)
    /\ Between(box.l, 0, PageWidth) /\ Between(box.r, 0, PageWidth)
    /\ Between(box.t, 0, PageHeight) /\ Between(box.b, 0, PageHeight)

\* ------------------------------------------------------------------ claims

\* C1: with the adapter enabled (scale 3), the cell emitted for a line with
\* local bbox (x0, y0, x1, y1) recognized in a region with origin (l, t) has
\* the top-left-origin box (x0/3 + l, y0/3 + t, x1/3 + l, y1/3 + t); origin
\* (50, 100) and bbox (30, 60, 90, 120) give (60, 120, 80, 140).  Its text and
\* raw text are the recognized text, its confidence the recognized
\* confidence, and it is marked as coming from OCR.
C1_CoordinateMapping ==
    (enabled /\ InBody) =>
      \A rec \in {Recognized} :
      /\ Len(all_cells) = Len(rec)
      /\ \A k \in DOMAIN all_cells :
           LET c == all_cells[k]
               box == CellBox(c)
               rect == rec[k].rect
               tl == rec[k].tl
           IN /\ IsThirdPlus(box.l, tl.bbox[1], rect.l)
              /\ IsThirdPlus(box.t, tl.bbox[2], rect.t)
              /\ IsThirdPlus(box.r, tl.bbox[3], rect.l)
              /\ IsThirdPlus(box.b, tl.bbox[4], rect.t)
              /\ c.rect.r_x0 = box.l /\ c.rect.r_y0 = box.b
              /\ c.rect.r_x2 = box.r /\ c.rect.r_y2 = box.t
              /\ c.rect.coord_origin = "TOPLEFT"
              /\ c.text = tl.text /\ c.orig = tl.text
              /\ c.confidence = tl.confidence
              /\ c.from_ocr = TRUE
              /\ (rect.l = 50 /\ rect.t = 100 /\ tl.bbox = <<30, 60, 90, 120>>)
                   => box = [l |-> Whole(60), t |-> Whole(120),
                             r |-> Whole(80), b |-> Whole(140)]

\* C1's case: a yielded page carries the cell of the example, and a cell
\* whose coordinates are not whole numbers.
C1_Witness ==
    /\ enabled /\ gen = "yield"
    /\ \E k \in DOMAIN yielded.cells :
         CellBox(yielded.cells[k]) = [l |-> Whole(60), t |-> Whole(120),
                                      r |-> Whole(80), b |-> Whole(140)]
    /\ \E k \in DOMAIN yielded.cells : CellBox(yielded.cells[k]).l.den = 3

\* C2: the cells handed to post_process_cells for a page carry the indices
\* 0, 1, 2, ... in accumulation order, running on from one region to the
\* next.
C2_IndicesContiguous ==
    (enabled /\ InBody) =>
      \A k \in DOMAIN all_cells : all_cells[k].index = k - 1

\* C3: a disabled adapter yields its input element for element, in order
\* and unchanged, and performs no operation of any collaborator: no region
\* selection, no rendering, no recognition, no post_process_cells.
C3_DisabledPassThrough ==
    (~enabled /\ gen \notin {"new", "failed"}) =>
      /\ events = << >>
      /\ ocr_rects = << >> /\ all_cells = << >>
      /\ gen # "rects"
      /\ emitted <= pulled /\ pulled <= requests
      /\ gen = "yield" =>
           /\ yielded = page
           /\ yielded.cells = << >> /\ ~yielded.post_processed
           /\ yielded.id = emitted
           /\ emitted = pulled /\ pulled = requests
      /\ gen \in {"loop", "done"} => emitted = pulled

\* C3's case: a disabled adapter has yielded its second page, a valid one
\* with a region that has an area.
C3_Witness ==
    /\ ~enabled /\ gen = "yield" /\ emitted = 2
    /\ page.backend = "valid"
    /\ \E i \in DOMAIN page.rects : HasArea(page.rects[i])
    /\ yielded = page

\* C4: an enabled adapter yields a page whose backend is absent or invalid
\* unchanged: no cells, no region selection, no recognition, no
\* post_process_cells, no error; the pages after it are still processed.
C4_InvalidSourcePassThrough ==
    enabled =>
      /\ (gen = "yield" /\ page.backend \in {"none", "invalid"}) =>
           /\ yielded = page
           /\ yielded.cells = << >> /\ ~yielded.post_processed
           /\ events = << >>
           /\ raised = "none"
      /\ gen = "rects" => page.backend = "valid"
      /\ events # << >> => page.backend = "valid"
      /\ (gen = "yield" /\ page.backend = "valid"
            /\ prev = "passed") =>
           /\ yielded.post_processed
           /\ Positions("post") # {}

\* C4's case: an invalid page was yielded, and the valid page after it has
\* been processed and yielded with cells.
C4_Witness ==
    /\ enabled /\ gen = "yield" /\ prev = "passed"
    /\ page.backend = "valid" /\ yielded.cells # << >>

\* C5: a region with zero area is never rendered or recognized: the
\* recognition calls of a page are those of its regions with an area, in the
\* selector's order, each with a batch of one image, each after a render of
\* that region.
C5_ZeroAreaSkip ==
    (enabled /\ InBody) =>
      LET recs == EventsOf("recognize")
          rends == EventsOf("render")
          done == AreaIndices(rectIdx - 1)
      IN /\ Len(recs) = Cardinality(done)
         /\ Len(rends) = Len(recs)
         /\ \A k \in DOMAIN recs :
              /\ recs[k].batch = 1
              /\ rends[k].rect = recs[k].rect
              /\ Cardinality({i \in done : i <= recs[k].rect}) = k
         /\ \A j \in DOMAIN events :
              events[j].rect # 0 => HasArea(ocr_rects[events[j].rect])
         /\ \A j \in DOMAIN events :
              events[j].op = "recognize" =>
                 j > 1 /\ events[j - 1] = [events[j] EXCEPT
                            !.op = "render", !.batch = 0, !.preds = << >>]
         /\ gen = "yield" => done = AreaIndices(Len(ocr_rects))

\* C5's case: a page whose first region has zero height and whose second
\* region has an area was yielded after one recognition call, with cells.
C5_Witness ==
    /\ enabled /\ gen = "yield" /\ page.backend = "valid"
    /\ Len(ocr_rects) = 2
    /\ ocr_rects[1].t = ocr_rects[1].b /\ ocr_rects[1].l # ocr_rects[1].r
    /\ HasArea(ocr_rects[2])
    /\ Len(EventsOf("recognize")) = 1
    /\ yielded.cells # << >>

\* A recognition return with no text line in it.
NoLines(preds) == \A k \in DOMAIN preds : preds[k].text_lines = << >>

WarnedFor(i) == \E j \in Positions("warn") : events[j].rect = i

\* C6, as stated: an empty return for a region (no result at all, or a
\* result with no text lines) is warned about and contributes no cells, the
\* other regions' cells are still produced and handed on, and the page is
\* yielded.
C6_WarnsOnEveryEmptyResult ==
    (enabled /\ InBody) =>
      /\ \A j \in Positions("recognize") :
           NoLines(events[j].preds) => WarnedFor(events[j].rect)
      /\ Len(all_cells) = Len(Recognized)
      /\ gen = "yield" => yielded.cells = all_cells

\* C6, amended: the warning is recorded exactly for the regions whose return
\* holds no result at all; a result with no text lines passes without a
\* warning.  Either way the region contributes no cells, the other regions'
\* cells are produced and handed to post_process_cells, and the page is
\* yielded.
C6_EmptyResultResilience ==
    (enabled /\ InBody) =>
      /\ \A j \in Positions("recognize") :
           (events[j].preds = << >>) <=> WarnedFor(events[j].rect)
      /\ Len(EventsOf("warn")) =
           Cardinality({j \in Positions("recognize") : events[j].preds = << >>})
      /\ \A rec \in {Recognized} :
           /\ Len(all_cells) = Len(rec)
           /\ \A k \in DOMAIN all_cells : all_cells[k].text = rec[k].tl.text
      /\ raised = "none"
      /\ gen = "yield" =>
           /\ yielded.cells = all_cells
           /\ yielded.id = page.id
           /\ \E j \in Positions("post") : events[j].cells = all_cells

\* C6's case: the first region's return held no result, the second region's
\* return held a line, and the page was yielded with that line's cell.
C6_Witness ==
    /\ enabled /\ gen = "yield" /\ page.backend = "valid"
    /\ \E i, j \in Positions("recognize") :
         /\ i < j
         /\ events[i].preds = << >>
         /\ ~NoLines(events[j].preds)
    /\ Len(EventsOf("warn")) = 1
    /\ yielded.cells # << >>

\* C7: constructing an enabled adapter whose backend cannot be imported or
\* constructed fails with ImportOcrError and leaves no usable adapter;
\* constructing a disabled one touches no backend and does not fail.
C7_CapabilityUnavailableError ==
    gen # "new" =>
      /\ (enabled /\ ~(env.surya_installed /\ env.predictors_construct)) =>
           /\ gen = "failed"
           /\ raised = "ImportOcrError"
           /\ ~has_predictors
      /\ ~enabled =>
           /\ ~import_attempted /\ ~has_predictors
           /\ raised = "none" /\ gen # "failed"

\* C8, as stated: every cell lies within the region it was recognized in and
\* within the page, whatever bbox the recognition returns.
C8_CellsWithinRegionAndPage ==
    (enabled /\ InBody) =>
      \A rec \in {Recognized} :
         \A k \in DOMAIN all_cells :
            k <= Len(rec) => WithinRegionAndPage(all_cells[k], rec[k].rect)

\* C8, amended: a cell lies within its region, and so within the page that
\* contains the region, when the bbox returned for it lies within the crop
\* that was rendered (0 <= x0 <= x1 <= 3 * width, 0 <= y0 <= y1 <= 3 *
\* height); the adapter clamps nothing, so a bbox outside the crop gives a
\* cell outside the region.
C8_CellsWithinRegionWhenBoxWithinCrop ==
    (enabled /\ InBody) =>
      \A rec \in {Recognized} :
         /\ Len(all_cells) = Len(rec)
         /\ \A k \in DOMAIN all_cells :
              WithinCrop(rec[k].tl, rec[k].rect) =>
                 WithinRegionAndPage(all_cells[k], rec[k].rect)

\* C8's case: a yielded page carries a cell of a bbox within its crop whose
\* right edge is not a whole number, and a cell of a bbox outside its crop.
C8_Witness ==
    /\ enabled /\ gen = "yield" /\ Len(all_cells) = Len(Recognized)
    /\ \E k \in DOMAIN all_cells :
         /\ WithinCrop(Recognized[k].tl, Recognized[k].rect)
         /\ CellBox(all_cells[k]).r.den = 3
    /\ \E k \in DOMAIN all_cells :
         ~WithinCrop(Recognized[k].tl, Recognized[k].rect)

\* C9: the kind of the options schema, read on the class or on any instance,
\* is "suryaocr"; ocr_engines() returns exactly one engine, SuryaOcrModel,
\* whose options type is SuryaOcrOptions; so the host's lookup by "suryaocr"
\* resolves to SuryaOcrModel.
C9_PluginIdentity ==
    /\ ClassKind("SuryaOcrOptions") = "suryaocr"
    /\ \A o \in SuryaOcrOptionsInstances : InstanceKind(o) = "suryaocr"
    /\ DOMAIN ocr_engines = {"ocr_engines"}
    /\ ocr_engines.ocr_engines = <<"SuryaOcrModel">>
    /\ get_options_type("SuryaOcrModel") = "SuryaOcrOptions"
    /\ registry # {} =>
         /\ Lookup("suryaocr") = {"SuryaOcrModel"}
         /\ \A e \in registry : e[1] = "suryaocr"

\* C9's case: the host has loaded the plugin and an adapter it constructed
\* is yielding pages.
C9_Witness ==
    /\ registry # {} /\ enabled /\ gen = "yield"
    /\ Lookup("suryaocr") = {"SuryaOcrModel"}

\* C10: an enabled adapter yields each page once and in input order, a page
\* at a time and only on request: all recognition calls of a valid page come
\* first, then one post_process_cells call (also for a page without regions
\* or cells) with the cells in region order and, within a region, in result
\* order, then the yield; nothing is done for the next page before this one
\* is yielded and the consumer has asked again.
C10_PageByPagePullDriven ==
    (enabled /\ gen \notin {"new", "failed"}) =>
      /\ emitted <= pulled /\ pulled <= emitted + 1 /\ pulled <= requests
      /\ gen \in {"ready", "start", "loop", "done"} =>
           events = << >> /\ emitted = pulled
      /\ gen = "rects" =>
           /\ pulled = emitted + 1 /\ requests = pulled /\ page.id = pulled
           /\ Positions("select") = {1}
           /\ Positions("post") = {} /\ Positions("draw") = {}
      /\ gen = "yield" =>
           /\ emitted = pulled /\ requests = pulled
           /\ yielded.id = emitted /\ page.id = emitted
           /\ [yielded EXCEPT !.cells = << >>, !.post_processed = FALSE] = page
      /\ (gen = "yield" /\ page.backend = "valid") =>
           /\ Positions("select") = {1}
           /\ Cardinality(Positions("post")) = 1
           /\ \A p \in Positions("post") :
                /\ \A j \in DOMAIN events :
                     /\ j < p => events[j].op \in
                                   {"select", "render", "recognize", "warn"}
                     /\ j > p => events[j].op = "draw"
                /\ events[p].cells = yielded.cells
                /\ \A rec \in {Recognized} :
                     /\ Len(events[p].cells) = Len(rec)
                     /\ \A k \in DOMAIN events[p].cells :
                          /\ events[p].cells[k].text = rec[k].tl.text
                          /\ events[p].cells[k].confidence =
                               rec[k].tl.confidence
           /\ Cardinality(Positions("draw")) <= 1
           /\ yielded.post_processed

\* C10's case: the second page, a valid one without regions, was yielded
\* after its one post_process_cells call, which received no cells.
C10_Witness ==
    /\ enabled /\ gen = "yield" /\ emitted = 2 /\ requests = 2
    /\ page.backend = "valid" /\ ocr_rects = << >>
    /\ prev = "processed"
    /\ \E p \in Positions("post") : events[p].cells = << >>

=============================================================================
